---- MODULE Spec2Model ----
(***************************************************************************)
(* FrameQueue of the camera-gstreamer demo: a bounded queue of frames      *)
(* between the capture thread (producer) and the main/display thread       *)
(* (consumer), protected by mutex_ and cond_, closed by the atomic flag    *)
(* running_.  Every statement of push, pop, stop and size that reads or    *)
(* writes shared state is one step, so that stop(), which does not take    *)
(* mutex_, can interleave anywhere with a push or a pop in progress.       *)
(***************************************************************************)
EXTENDS Integers, Sequences, FiniteSets, TLC

\* ---------------------------------------------------------------- bounds
MaxCap == 2        \* capacities 1..MaxCap are explored
MaxFrames == 3     \* number of push calls of the producer
MaxPops == 2       \* number of pop calls of the consumer
MaxStops == 2      \* number of stop calls, of both threads together
LateCap == 2       \* lateReads and latePushes stop counting here
MaxArgLen == 2     \* length of the queue_size argument, in characters

\* ------------------------------------------------------------- constants
Producer == "capture"
Consumer == "main"
Threads == {Producer, Consumer}
NoFrame == 0                       \* an empty cv::Mat
Frames == 1..MaxFrames             \* the k-th captured frame is k
PopTimeouts == {-1, 0, 1000}       \* timeout_ms arguments of pop
Free == "free"                     \* mutex_ not held
NoStatus == -1                     \* main has not returned yet
NoBuf == 0                         \* a cv::Mat header without pixel data
MaxBufs == MaxFrames + MaxCap + 3  \* pixel buffers that can be live at once
BufIds == 1..MaxBufs
Counters == {"capture_fps", "display_fps"}
Digits == <<"0", "1", "2", "3", "4", "5", "6", "7", "8", "9">>
\* the decimal text of a one-digit number
DecimalArg(n) == <<Digits[n + 1]>>
\* the characters a queue_size argument is made of here
ArgChars == {"0", "1", "2", "9", "-", "+", " ", "x"}
ArgStrings == UNION {[1..n -> ArgChars] : n \in 0..MaxArgLen}
\* size_t has 64 bits on the target; the model checker's integers have 32, so
\* the conversion from int wraps modulo 2^30 here: a negative int still
\* becomes a very large size_t and a non-negative one keeps its value
SizeTModulus == 2^30
ToSizeT(n) == n % SizeTModulus

\* ------------------------------------------------------------- std::atoi
IsDigit(c) == \E d \in 1..10 : Digits[d] = c
DigitOf(c) == (CHOOSE d \in 1..10 : Digits[d] = c) - 1
IsSpace(c) == c = " "
RECURSIVE SkipSpaces(_)
SkipSpaces(str) ==
    IF str # <<>> /\ IsSpace(Head(str)) THEN SkipSpaces(Tail(str)) ELSE str
RECURSIVE AtoiDigits(_, _)
AtoiDigits(str, acc) ==
    IF str = <<>> \/ ~IsDigit(Head(str)) THEN acc
    ELSE AtoiDigits(Tail(str), 10 * acc + DigitOf(Head(str)))
\* std::atoi: leading white space, an optional sign, then the digits up to
\* the first other character; 0 when there is no digit
atoi(str) ==
    LET s1 == SkipSpaces(str)
    IN  IF s1 = <<>> THEN 0
        ELSE IF Head(s1) = "-" THEN 0 - AtoiDigits(Tail(s1), 0)
        ELSE IF Head(s1) = "+" THEN AtoiDigits(Tail(s1), 0)
        ELSE AtoiDigits(s1, 0)

VARIABLES
    max_size_,   \* FrameQueue::max_size_
    queue_,      \* FrameQueue::queue_, front first
    running_,    \* FrameQueue::running_
    mutex_,      \* owner of FrameQueue::mutex_, or Free
    pc,          \* position of each thread
    ret,         \* where the method a thread is in returns to
    pushArg,     \* the frame argument of a thread's push
    popTimeout,  \* the timeout_ms argument of a thread's pop
    wake,        \* why a thread left cond_'s wait: none, notify, timeout, spurious
    frame,       \* the caller's output frame of pop
    ok,          \* the value the thread's last pop returned
    count,       \* the value the thread's last size returned
    \* history, written only, never read by the program
    accepted,    \* frames inserted by push, in order
    delivered,   \* frames returned by successful pops, in order
    dropped,     \* frames removed by push's overflow loop, in order
    pushes,      \* push calls made
    pops,        \* pop calls made
    stopCalls,   \* stop calls made
    stopsDone,   \* stop calls completed, per thread
    pre,         \* queue_ when the current push or pop took mutex_
    closedAtCall,\* running_ was false when the current call started
    waited,      \* the current pop blocked on cond_
    steps,       \* steps of the current push since it took mutex_
    \* the pipeline: captureThread and main
    running,     \* main's std::atomic<bool> running, shared by both threads
    capFrame,    \* captureThread's cv::Mat frame
    opened,      \* cap.isOpened(): "unknown" before the open, then "yes" or "no"
    key,         \* a q, Q or ESC key press is pending for cv::waitKey
    exitStatus,  \* the value main returned, NoStatus before it returns
    \* history of the pipeline
    runningWrites,  \* the threads that have stored false into running, in order
    keyAtIterStart, \* a key press was pending when the display loop's
                    \* current iteration started
    \* the pixel buffers behind the cv::Mat headers
    data,        \* the content of each pixel buffer, NoFrame when it is free
    capData,     \* the buffer of captureThread's cv::Mat frame, or NoBuf
    queueData,   \* the buffers of the elements of queue_, front first
    frameData,   \* the buffer of each thread's output frame of pop, or NoBuf
    \* the throughput counters capture_fps and display_fps of main; their
    \* values steer nothing, so only the accesses to them are kept
    fpsAccess,   \* <<thread, counter, "read" or "write">> made so far
    \* history of the capture loop
    lateReads,   \* reads begun by captureThread while running was false
    latePushes,  \* push calls made by captureThread while running was false
    \* main's command line
    argc,        \* main's argc
    argv5,       \* argv[5], the queue_size argument, as its characters
    queue_size   \* main's size_t queue_size

vars == <<max_size_, queue_, running_, mutex_, pc, ret, pushArg, popTimeout,
          wake, frame, ok, count, accepted, delivered, dropped, pushes, pops,
          stopCalls, stopsDone, pre, closedAtCall, waited, steps,
          running, capFrame, opened, key, exitStatus, runningWrites,
          keyAtIterStart, data, capData, queueData, frameData, fpsAccess,
          lateReads, latePushes, argc, argv5, queue_size>>

queueVars == <<max_size_, queue_, running_, mutex_>>
histVars == <<accepted, delivered, dropped>>
callVars == <<pushes, pops, stopCalls>>
retVars == <<ok, count>>
locVars == <<pushArg, popTimeout, wake, pre, closedAtCall, waited, steps>>
matVars == <<data, capData, queueData, frameData>>
fpsVars == <<fpsAccess>>
lateVars == <<lateReads, latePushes>>
argVars == <<argc, argv5, queue_size>>
pipeVars == <<running, capFrame, opened, key, exitStatus, runningWrites,
              keyAtIterStart, fpsVars, lateVars, argVars>>

\* --------------------------------------------------- std::queue<cv::Mat>
QSize(q) == Len(q)
QEmpty(q) == q = <<>>
\* mutant: back() instead of front()
QFrontBack(q) == q[Len(q)]
QFront(q) == Head(q)
\* mutant: removes the newest element instead of the oldest
QPopBack(q) == SubSeq(q, 1, Len(q) - 1)
QPop(q) == Tail(q)
\* mutant: the frame is appended twice
QPushTwice(q, f) == Append(Append(q, f), f)
QPush(q, f) == Append(q, f)

\* ------------------------------------------------------------ conditions
\* mutant: > instead of >=
PushLoopCondGT(q, n, r) == QSize(q) > n /\ r
\* mutant: the loop does not test running_
PushLoopCondNoRunning(q, n, r) == QSize(q) >= n
\* push: while (queue_.size() >= max_size_ && running_)
PushLoopCond(q, n, r) == QSize(q) >= n /\ r
\* push: if (running_)
PushIfCond(r) == r
\* mutant: the predicate does not test running_
PopPredNoClosed(q, r) == ~QEmpty(q)
\* pop: the predicate of wait_for
PopPred(q, r) == ~QEmpty(q) \/ ~r
\* mutant: returns false on a closed queue whatever it holds
PopClosedCondNoEmpty(q, r) == ~r
\* pop: if (!running_ && queue_.empty()) return false
PopClosedCond(q, r) == ~r /\ QEmpty(q)
\* pop: if (!queue_.empty())
PopTakeCond(q) == ~QEmpty(q)
\* mutant: the timeout is taken as unsigned, so a negative one is far away
DeadlineInFutureUnsigned(ms) == ms # 0
\* pop: now + std::chrono::milliseconds(timeout_ms) is later than now
DeadlineInFuture(ms) == ms > 0
\* mutant: stop toggles the flag
StopValueToggle(r) == ~r
\* stop: running_ = false
StopValue(r) == FALSE

Waiters == {t \in Threads : pc[t] = "pop_waiting"}

Range(a) == {a[i] : i \in 1..Len(a)}

\* ---------------------------------------------------------------- cv::Mat
\* the pixel buffers that a header refers to: captureThread's frame, the
\* elements of queue_ and the output frames of pop hold one reference each
Referenced(cap, qd, fd) ==
    ({cap} \cup Range(qd) \cup {fd[t] : t \in Threads}) \ {NoBuf}
\* a buffer is freed when the last header referring to it lets go of it
Collect(d, live) == [b \in BufIds |-> IF b \in live THEN d[b] ELSE NoFrame]
\* cv::Mat::create allocates a buffer that no header refers to
FreshBuf ==
    CHOOSE b \in BufIds \ Referenced(capData, queueData, frameData) :
        \A c \in BufIds \ Referenced(capData, queueData, frameData) : b <= c
\* mutant: the header is copied, the pixel buffer is shared
MatCloneShares(src) == src
\* cv::Mat::clone(): a header with a buffer of its own; an empty Mat has none
MatClone(src) == IF src = NoBuf THEN NoBuf ELSE FreshBuf
\* cap.read(frame) on success: Mat::create keeps a buffer of the right size
\* and type and the frame is copied into it
ReadInto(cap) == IF cap = NoBuf THEN FreshBuf ELSE cap

Init ==
    /\ max_size_ \in 1..MaxCap
    /\ queue_ = <<>>
    /\ running_ = TRUE
    /\ mutex_ = Free
    /\ pc = [t \in Threads |-> "idle"]
    /\ ret = [t \in Threads |-> "idle"]
    /\ pushArg = [t \in Threads |-> NoFrame]
    /\ popTimeout = [t \in Threads |-> 0]
    /\ wake = [t \in Threads |-> "none"]
    /\ frame = [t \in Threads |-> NoFrame]
    /\ ok = [t \in Threads |-> FALSE]
    /\ count = [t \in Threads |-> 0]
    /\ accepted = <<>>
    /\ delivered = <<>>
    /\ dropped = <<>>
    /\ pushes = 0
    /\ pops = 0
    /\ stopCalls = 0
    /\ stopsDone = [t \in Threads |-> 0]
    /\ pre = [t \in Threads |-> <<>>]
    /\ closedAtCall = [t \in Threads |-> FALSE]
    /\ waited = [t \in Threads |-> FALSE]
    /\ steps = [t \in Threads |-> 0]
    /\ running = TRUE
    /\ capFrame = NoFrame
    /\ opened = "unknown"
    /\ key = FALSE
    /\ exitStatus = NoStatus
    /\ runningWrites = <<>>
    /\ keyAtIterStart = FALSE
    /\ data = [b \in BufIds |-> NoFrame]
    /\ capData = NoBuf
    /\ queueData = <<>>
    /\ frameData = [t \in Threads |-> NoBuf]
    /\ fpsAccess = {}
    /\ lateReads = 0
    /\ latePushes = 0
    /\ argc = 6
    /\ argv5 = DecimalArg(max_size_)
    /\ queue_size = max_size_

\* ------------------------------------------------------- mutex_ and cond_
Lock(t) == mutex_ = Free /\ mutex_' = t
Unlock(t) == mutex_ = t /\ mutex_' = Free

\* mutant: push does not notify
NotifyNobody(t) == pc' = [pc EXCEPT ![t] = "push_unlock"] /\ wake' = wake

\* cond_.notify_one(): one waiting thread, if any, leaves the wait
NotifyOne(t) ==
    IF Waiters = {}
      THEN pc' = [pc EXCEPT ![t] = "push_unlock"] /\ wake' = wake
      ELSE \E w \in Waiters :
             /\ pc' = [pc EXCEPT ![t] = "push_unlock", ![w] = "pop_reacquire"]
             /\ wake' = [wake EXCEPT ![w] = "notify"]

\* cond_.notify_all(): every waiting thread leaves the wait
NotifyAll(t) ==
    /\ pc' = [u \in Threads |-> IF u = t THEN ret[t]
                                ELSE IF u \in Waiters THEN "pop_reacquire"
                                ELSE pc[u]]
    /\ wake' = [u \in Threads |-> IF u \in Waiters THEN "notify" ELSE wake[u]]

\* a history counter of what captureThread begins while running is false
CountLate(n) == IF ~running /\ n < LateCap THEN n + 1 ELSE n

Bump(t) == steps' = [steps EXCEPT ![t] = IF @ < 9 THEN @ + 1 ELSE @]

\* ------------------------------------------------------ FrameQueue::push
\* std::unique_lock<std::mutex> lock(mutex_);
PushLock(t) ==
    /\ pc[t] = "push_lock"
    /\ Lock(t)
    /\ pc' = [pc EXCEPT ![t] = "push_while"]
    /\ pre' = [pre EXCEPT ![t] = queue_]
    /\ steps' = [steps EXCEPT ![t] = 0]
    /\ UNCHANGED <<max_size_, queue_, running_, ret, pushArg, popTimeout, wake,
                   frame, retVars, histVars, callVars, stopsDone, closedAtCall,
                   waited, matVars>>

\* mutant: block-producer policy, push waits while the queue is full
PushWhileBlocking(t) ==
    /\ pc[t] = "push_while"
    /\ mutex_ = t
    /\ ~PushLoopCond(queue_, max_size_, running_)
    /\ pc' = [pc EXCEPT ![t] = "push_if"]
    /\ Bump(t)
    /\ UNCHANGED <<queueVars, ret, pushArg, popTimeout, wake, frame, retVars,
                   histVars, callVars, stopsDone, pre, closedAtCall, waited,
                   matVars>>

\* while (queue_.size() >= max_size_ && running_)
PushWhile(t) ==
    /\ pc[t] = "push_while"
    /\ mutex_ = t
    /\ pc' = [pc EXCEPT ![t] = IF PushLoopCond(queue_, max_size_, running_)
                                 THEN "push_drop" ELSE "push_if"]
    /\ Bump(t)
    /\ UNCHANGED <<queueVars, ret, pushArg, popTimeout, wake, frame, retVars,
                   histVars, callVars, stopsDone, pre, closedAtCall, waited,
                   matVars>>

\* queue_.pop();
PushDrop(t) ==
    /\ pc[t] = "push_drop"
    /\ mutex_ = t
    /\ queue_' = QPop(queue_)
    /\ queueData' = QPop(queueData)
    /\ data' = Collect(data, Referenced(capData, queueData', frameData))
    /\ dropped' = Append(dropped, QFront(queue_))
    /\ pc' = [pc EXCEPT ![t] = "push_while"]
    /\ Bump(t)
    /\ UNCHANGED <<max_size_, running_, mutex_, ret, pushArg, popTimeout, wake,
                   frame, retVars, accepted, delivered, callVars, stopsDone,
                   pre, closedAtCall, waited, capData, frameData>>

\* if (running_)
PushIf(t) ==
    /\ pc[t] = "push_if"
    /\ mutex_ = t
    /\ pc' = [pc EXCEPT ![t] = IF PushIfCond(running_)
                                 THEN "push_insert" ELSE "push_unlock"]
    /\ Bump(t)
    /\ UNCHANGED <<queueVars, ret, pushArg, popTimeout, wake, frame, retVars,
                   histVars, callVars, stopsDone, pre, closedAtCall, waited,
                   matVars>>

\* queue_.push(frame.clone());
PushInsert(t) ==
    /\ pc[t] = "push_insert"
    /\ mutex_ = t
    /\ queue_' = QPush(queue_, pushArg[t])
    /\ queueData' = QPush(queueData, MatClone(capData))
    /\ data' = IF capData = NoBuf THEN data
               ELSE [data EXCEPT ![MatClone(capData)] = data[capData]]
    /\ accepted' = Append(accepted, pushArg[t])
    /\ pc' = [pc EXCEPT ![t] = "push_notify"]
    /\ Bump(t)
    /\ UNCHANGED <<max_size_, running_, mutex_, ret, pushArg, popTimeout, wake,
                   frame, retVars, delivered, dropped, callVars, stopsDone,
                   pre, closedAtCall, waited, capData, frameData>>

\* cond_.notify_one();
PushNotify(t) ==
    /\ pc[t] = "push_notify"
    /\ mutex_ = t
    /\ NotifyOne(t)
    /\ Bump(t)
    /\ UNCHANGED <<queueVars, ret, pushArg, popTimeout, frame, retVars,
                   histVars, callVars, stopsDone, pre, closedAtCall, waited,
                   matVars>>

\* the closing brace of push: lock's destructor; the call's locals end
PushUnlock(t) ==
    /\ pc[t] = "push_unlock"
    /\ Unlock(t)
    /\ pc' = [pc EXCEPT ![t] = ret[t]]
    /\ pushArg' = [pushArg EXCEPT ![t] = NoFrame]
    /\ steps' = [steps EXCEPT ![t] = 0]
    /\ pre' = [pre EXCEPT ![t] = <<>>]
    /\ closedAtCall' = [closedAtCall EXCEPT ![t] = FALSE]
    /\ UNCHANGED <<max_size_, queue_, running_, ret, popTimeout, wake, frame,
                   retVars, histVars, callVars, stopsDone, waited, matVars>>

PushStep(t) ==
    \/ PushWhile(t) \/ PushDrop(t) \/ PushIf(t)
    \/ PushInsert(t) \/ PushNotify(t) \/ PushUnlock(t)

\* ------------------------------------------------------- FrameQueue::pop
\* std::unique_lock<std::mutex> lock(mutex_);
PopLock(t) ==
    /\ pc[t] = "pop_lock"
    /\ Lock(t)
    /\ pc' = [pc EXCEPT ![t] = "pop_pred"]
    /\ pre' = [pre EXCEPT ![t] = queue_]
    /\ UNCHANGED <<max_size_, queue_, running_, ret, pushArg, popTimeout, wake,
                   frame, retVars, histVars, callVars, stopsDone, closedAtCall,
                   waited, steps, matVars>>

\* wait_for: while (!pred()) ...; return true;
PopPredTest(t) ==
    /\ pc[t] = "pop_pred"
    /\ mutex_ = t
    /\ pc' = [pc EXCEPT ![t] = IF PopPred(queue_, running_)
                                 THEN "pop_closed" ELSE "pop_block"]
    /\ UNCHANGED <<queueVars, ret, pushArg, popTimeout, wake, frame, retVars,
                   histVars, callVars, stopsDone, pre, closedAtCall, waited,
                   steps, matVars>>

\* wait_for: wait_until(lock, atime) releases mutex_ and blocks on cond_;
\* a deadline that is not in the future times out at once
PopBlock(t) ==
    /\ pc[t] = "pop_block"
    /\ Unlock(t)
    /\ IF DeadlineInFuture(popTimeout[t])
         THEN /\ pc' = [pc EXCEPT ![t] = "pop_waiting"]
              /\ wake' = [wake EXCEPT ![t] = "none"]
              /\ waited' = [waited EXCEPT ![t] = TRUE]
         ELSE /\ pc' = [pc EXCEPT ![t] = "pop_reacquire"]
              /\ wake' = [wake EXCEPT ![t] = "timeout"]
              /\ waited' = waited
    /\ UNCHANGED <<max_size_, queue_, running_, ret, pushArg, popTimeout,
                   frame, retVars, histVars, callVars, stopsDone, pre,
                   closedAtCall, steps, matVars>>

\* the deadline of wait_until passes while the thread is blocked
PopTimeout(t) ==
    /\ pc[t] = "pop_waiting"
    /\ pc' = [pc EXCEPT ![t] = "pop_reacquire"]
    /\ wake' = [wake EXCEPT ![t] = "timeout"]
    /\ UNCHANGED <<queueVars, ret, pushArg, popTimeout, frame, retVars,
                   histVars, callVars, stopsDone, pre, closedAtCall, waited,
                   steps, matVars>>

\* a spurious wake-up of the condition variable
PopSpurious(t) ==
    /\ pc[t] = "pop_waiting"
    /\ pc' = [pc EXCEPT ![t] = "pop_reacquire"]
    /\ wake' = [wake EXCEPT ![t] = "spurious"]
    /\ UNCHANGED <<queueVars, ret, pushArg, popTimeout, frame, retVars,
                   histVars, callVars, stopsDone, pre, closedAtCall, waited,
                   steps, matVars>>

\* wait_until retakes mutex_ and reports cv_status: timeout when the deadline
\* has passed (it may also have passed while the woken thread waited for
\* mutex_), then `return pred()`; no_timeout goes round the while loop
PopReacquire(t) ==
    /\ pc[t] = "pop_reacquire"
    /\ Lock(t)
    /\ \E timedOut \in BOOLEAN :
         /\ wake[t] = "timeout" => timedOut
         /\ pc' = [pc EXCEPT ![t] = IF timedOut THEN "pop_final" ELSE "pop_pred"]
    /\ pre' = [pre EXCEPT ![t] = queue_]
    /\ UNCHANGED <<max_size_, queue_, running_, ret, pushArg, popTimeout, wake,
                   frame, retVars, histVars, callVars, stopsDone, closedAtCall,
                   waited, steps, matVars>>

\* mutant: a pop that times out clears the caller's frame
PopFinalTestClearsFrame(t) ==
    /\ pc[t] = "pop_final"
    /\ mutex_ = t
    /\ IF PopPred(queue_, running_)
         THEN pc' = [pc EXCEPT ![t] = "pop_closed"] /\ ok' = ok /\ frame' = frame
         ELSE /\ pc' = [pc EXCEPT ![t] = "pop_unlock"]
              /\ ok' = [ok EXCEPT ![t] = FALSE]
              /\ frame' = [frame EXCEPT ![t] = NoFrame]
    /\ UNCHANGED <<queueVars, ret, pushArg, popTimeout, wake, count, histVars,
                   callVars, stopsDone, pre, closedAtCall, waited, steps,
                   matVars>>

\* wait_for timed out: return pred();  and then, in pop,
\* if (!cond_.wait_for(...)) return false;
PopFinalTest(t) ==
    /\ pc[t] = "pop_final"
    /\ mutex_ = t
    /\ IF PopPred(queue_, running_)
         THEN pc' = [pc EXCEPT ![t] = "pop_closed"] /\ ok' = ok
         ELSE /\ pc' = [pc EXCEPT ![t] = "pop_unlock"]
              /\ ok' = [ok EXCEPT ![t] = FALSE]
    /\ UNCHANGED <<queueVars, ret, pushArg, popTimeout, wake, frame, count,
                   histVars, callVars, stopsDone, pre, closedAtCall, waited,
                   steps, matVars>>

\* if (!running_ && queue_.empty()) return false;
PopClosedTest(t) ==
    /\ pc[t] = "pop_closed"
    /\ mutex_ = t
    /\ IF PopClosedCond(queue_, running_)
         THEN /\ pc' = [pc EXCEPT ![t] = "pop_unlock"]
              /\ ok' = [ok EXCEPT ![t] = FALSE]
         ELSE pc' = [pc EXCEPT ![t] = "pop_take"] /\ ok' = ok
    /\ UNCHANGED <<queueVars, ret, pushArg, popTimeout, wake, frame, count,
                   histVars, callVars, stopsDone, pre, closedAtCall, waited,
                   steps, matVars>>

\* if (!queue_.empty()) { frame = queue_.front(); queue_.pop(); return true; }
\* return false;
PopTake(t) ==
    /\ pc[t] = "pop_take"
    /\ mutex_ = t
    /\ IF PopTakeCond(queue_)
         THEN /\ frame' = [frame EXCEPT ![t] = QFront(queue_)]
              /\ frameData' = [frameData EXCEPT ![t] = QFront(queueData)]
              /\ queue_' = QPop(queue_)
              /\ queueData' = QPop(queueData)
              /\ data' = Collect(data,
                                 Referenced(capData, queueData', frameData'))
              /\ delivered' = Append(delivered, QFront(queue_))
              /\ ok' = [ok EXCEPT ![t] = TRUE]
         ELSE /\ ok' = [ok EXCEPT ![t] = FALSE]
              /\ UNCHANGED <<frame, queue_, delivered, data, queueData,
                             frameData>>
    /\ pc' = [pc EXCEPT ![t] = "pop_unlock"]
    /\ UNCHANGED <<max_size_, running_, mutex_, ret, pushArg, popTimeout, wake,
                   count, accepted, dropped, callVars, stopsDone, pre,
                   closedAtCall, waited, steps, capData>>

\* the return of pop: lock's destructor; the call's locals end
PopUnlock(t) ==
    /\ pc[t] = "pop_unlock"
    /\ Unlock(t)
    /\ pc' = [pc EXCEPT ![t] = ret[t]]
    /\ popTimeout' = [popTimeout EXCEPT ![t] = 0]
    /\ wake' = [wake EXCEPT ![t] = "none"]
    /\ waited' = [waited EXCEPT ![t] = FALSE]
    /\ pre' = [pre EXCEPT ![t] = <<>>]
    /\ closedAtCall' = [closedAtCall EXCEPT ![t] = FALSE]
    /\ UNCHANGED <<max_size_, queue_, running_, ret, pushArg, frame, retVars,
                   histVars, callVars, stopsDone, steps, matVars>>

\* ------------------------------------------------------ FrameQueue::stop
\* running_ = false;
StopSet(t) ==
    /\ pc[t] = "stop_set"
    /\ running_' = StopValue(running_)
    /\ pc' = [pc EXCEPT ![t] = "stop_notify"]
    /\ UNCHANGED <<max_size_, queue_, mutex_, ret, pushArg, popTimeout, wake,
                   frame, retVars, histVars, callVars, stopsDone, pre,
                   closedAtCall, waited, steps, matVars>>

\* cond_.notify_all();
StopNotify(t) ==
    /\ pc[t] = "stop_notify"
    /\ NotifyAll(t)
    /\ stopsDone' = [stopsDone EXCEPT ![t] = @ + 1]
    /\ UNCHANGED <<queueVars, ret, pushArg, popTimeout, frame, retVars,
                   histVars, callVars, pre, closedAtCall, waited, steps,
                   matVars>>

\* ------------------------------------------------------ FrameQueue::size
\* std::lock_guard<std::mutex> lock(mutex_);
SizeLock(t) ==
    /\ pc[t] = "size_lock"
    /\ Lock(t)
    /\ pc' = [pc EXCEPT ![t] = "size_return"]
    /\ UNCHANGED <<max_size_, queue_, running_, ret, pushArg, popTimeout, wake,
                   frame, retVars, histVars, callVars, stopsDone, pre,
                   closedAtCall, waited, steps, matVars>>

\* return queue_.size();
SizeReturn(t) ==
    /\ pc[t] = "size_return"
    /\ Unlock(t)
    /\ count' = [count EXCEPT ![t] = QSize(queue_)]
    /\ pc' = [pc EXCEPT ![t] = ret[t]]
    /\ UNCHANGED <<max_size_, queue_, running_, ret, pushArg, popTimeout, wake,
                   frame, ok, histVars, callVars, stopsDone, pre, closedAtCall,
                   waited, steps, matVars>>

QueueStep(t) ==
    \/ PushLock(t) \/ PushStep(t)
    \/ PopLock(t) \/ PopPredTest(t) \/ PopBlock(t) \/ PopTimeout(t)
    \/ PopSpurious(t) \/ PopReacquire(t) \/ PopFinalTest(t)
    \/ PopClosedTest(t) \/ PopTake(t) \/ PopUnlock(t)
    \/ StopSet(t) \/ StopNotify(t)
    \/ SizeLock(t) \/ SizeReturn(t)

\* ------------------------------------------------------------- the callers
\* the producer thread calls frameQueue.push(frame) with its next frame
CallPush(t) ==
    /\ t = Producer
    /\ pc[t] = "idle"
    /\ pushes < MaxFrames
    /\ pushes' = pushes + 1
    /\ pushArg' = [pushArg EXCEPT ![t] = pushes + 1]
    /\ capData' = ReadInto(capData)
    /\ data' = [data EXCEPT ![capData'] = pushes + 1]
    /\ closedAtCall' = [closedAtCall EXCEPT ![t] = ~running_]
    /\ pc' = [pc EXCEPT ![t] = "push_lock"]
    /\ UNCHANGED <<queueVars, ret, popTimeout, wake, frame, retVars, histVars,
                   pops, stopCalls, stopsDone, pre, waited, steps, queueData,
                   frameData>>

\* the consumer thread calls frameQueue.pop(frame, timeout_ms)
CallPop(t) ==
    /\ t = Consumer
    /\ pc[t] = "idle"
    /\ pops < MaxPops
    /\ pops' = pops + 1
    /\ \E ms \in PopTimeouts : popTimeout' = [popTimeout EXCEPT ![t] = ms]
    /\ closedAtCall' = [closedAtCall EXCEPT ![t] = ~running_]
    /\ waited' = [waited EXCEPT ![t] = FALSE]
    /\ wake' = [wake EXCEPT ![t] = "none"]
    /\ pc' = [pc EXCEPT ![t] = "pop_lock"]
    /\ UNCHANGED <<queueVars, ret, pushArg, frame, retVars, histVars, pushes,
                   stopCalls, stopsDone, pre, steps, matVars>>

\* either thread calls frameQueue.stop()
CallStop(t) ==
    /\ pc[t] = "idle"
    /\ stopCalls < MaxStops
    /\ stopCalls' = stopCalls + 1
    /\ pc' = [pc EXCEPT ![t] = "stop_set"]
    /\ UNCHANGED <<queueVars, ret, pushArg, popTimeout, wake, frame, retVars,
                   histVars, pushes, pops, stopsDone, pre, closedAtCall,
                   waited, steps, matVars>>

\* either thread calls frameQueue.size()
CallSize(t) ==
    /\ pc[t] = "idle"
    /\ pc' = [pc EXCEPT ![t] = "size_lock"]
    /\ UNCHANGED <<queueVars, ret, pushArg, popTimeout, wake, frame, retVars,
                   histVars, callVars, stopsDone, pre, closedAtCall, waited,
                   steps, matVars>>

Next ==
    /\ \E t \in Threads :
          \/ CallPush(t) \/ CallPop(t) \/ CallStop(t) \/ CallSize(t)
          \/ QueueStep(t)
    /\ UNCHANGED pipeVars

Spec == Init /\ [][Next]_vars

\* ------------------------------------------- producer and consumer, running
\* the consumer thread calls pop again and again, each time with a finite
\* timeout
CallPopRepeat(t) ==
    /\ t = Consumer
    /\ pc[t] = "idle"
    /\ \E ms \in PopTimeouts : popTimeout' = [popTimeout EXCEPT ![t] = ms]
    /\ closedAtCall' = [closedAtCall EXCEPT ![t] = ~running_]
    /\ waited' = [waited EXCEPT ![t] = FALSE]
    /\ wake' = [wake EXCEPT ![t] = "none"]
    /\ pc' = [pc EXCEPT ![t] = "pop_lock"]
    /\ UNCHANGED <<queueVars, ret, pushArg, frame, retVars, histVars, callVars,
                   stopsDone, pre, steps, matVars>>

PopStep(t) ==
    \/ PopLock(t) \/ PopPredTest(t) \/ PopBlock(t) \/ PopTimeout(t)
    \/ PopSpurious(t) \/ PopReacquire(t) \/ PopFinalTest(t)
    \/ PopClosedTest(t) \/ PopTake(t) \/ PopUnlock(t)

\* the producer pushes its frames into the open queue
ProducerLive ==
    /\ CallPush(Producer) \/ PushLock(Producer) \/ PushStep(Producer)
    /\ UNCHANGED pipeVars

\* the consumer pops for ever
ConsumerLive ==
    /\ CallPopRepeat(Consumer) \/ PopStep(Consumer)
    /\ UNCHANGED pipeVars

NextLive == ProducerLive \/ ConsumerLive

\* a thread takes mutex_: the lock of push or pop, or wait_for's re-lock
TakesMutex(t) ==
    /\ PushLock(t) \/ PopLock(t) \/ PopReacquire(t) \/ SizeLock(t)
    /\ UNCHANGED pipeVars

\* both threads are scheduled fairly; a blocked wait_for ends at the latest
\* when its finite timeout passes; a thread blocked in mutex_.lock() gets the
\* mutex in the end, since the other thread releases it again and again
SpecLive ==
    /\ Init /\ [][NextLive]_vars
    /\ WF_vars(ProducerLive) /\ WF_vars(ConsumerLive)
    /\ \A t \in Threads : SF_vars(TakesMutex(t))

TypeOK ==
    /\ max_size_ \in 1..MaxCap
    /\ queue_ \in Seq(Frames)
    /\ running_ \in BOOLEAN
    /\ mutex_ \in Threads \cup {Free}
    /\ \A t \in Threads : wake[t] \in {"none", "notify", "timeout", "spurious"}

\* ------------------------------------------------------------ the pipeline
\* main has built frameQueue(queue_size), running(true) and the fps counters;
\* the capture thread is not started yet
InitPipeline ==
    /\ max_size_ \in 1..MaxCap
    /\ queue_ = <<>>
    /\ running_ = TRUE
    /\ mutex_ = Free
    /\ pc = [t \in Threads |-> IF t = Producer THEN "cap_notstarted"
                               ELSE "main_spawn"]
    /\ ret = [t \in Threads |-> "idle"]
    /\ pushArg = [t \in Threads |-> NoFrame]
    /\ popTimeout = [t \in Threads |-> 0]
    /\ wake = [t \in Threads |-> "none"]
    /\ frame = [t \in Threads |-> NoFrame]
    /\ ok = [t \in Threads |-> FALSE]
    /\ count = [t \in Threads |-> 0]
    /\ accepted = <<>>
    /\ delivered = <<>>
    /\ dropped = <<>>
    /\ pushes = 0
    /\ pops = 0
    /\ stopCalls = 0
    /\ stopsDone = [t \in Threads |-> 0]
    /\ pre = [t \in Threads |-> <<>>]
    /\ closedAtCall = [t \in Threads |-> FALSE]
    /\ waited = [t \in Threads |-> FALSE]
    /\ steps = [t \in Threads |-> 0]
    /\ running = TRUE
    /\ capFrame = NoFrame
    /\ opened = "unknown"
    /\ key = FALSE
    /\ exitStatus = NoStatus
    /\ runningWrites = <<>>
    /\ keyAtIterStart = FALSE
    /\ data = [b \in BufIds |-> NoFrame]
    /\ capData = NoBuf
    /\ queueData = <<>>
    /\ frameData = [t \in Threads |-> NoBuf]
    /\ fpsAccess = {}
    /\ lateReads = 0
    /\ latePushes = 0
    /\ argc = 6
    /\ argv5 = DecimalArg(max_size_)
    /\ queue_size = max_size_

\* ------------------------------------------------ main: the command line
\* main starts: queue_size has its default, no queue has been built
InitArgs ==
    /\ argc \in {5, 6}
    /\ argv5 \in ArgStrings
    /\ argc < 6 => argv5 = <<>>
    /\ queue_size = 5
    /\ max_size_ = 0
    /\ queue_ = <<>>
    /\ running_ = TRUE
    /\ mutex_ = Free
    /\ pc = [t \in Threads |-> IF t = Producer THEN "cap_notstarted"
                               ELSE "main_args"]
    /\ ret = [t \in Threads |-> "idle"]
    /\ pushArg = [t \in Threads |-> NoFrame]
    /\ popTimeout = [t \in Threads |-> 0]
    /\ wake = [t \in Threads |-> "none"]
    /\ frame = [t \in Threads |-> NoFrame]
    /\ ok = [t \in Threads |-> FALSE]
    /\ count = [t \in Threads |-> 0]
    /\ accepted = <<>>
    /\ delivered = <<>>
    /\ dropped = <<>>
    /\ pushes = 0
    /\ pops = 0
    /\ stopCalls = 0
    /\ stopsDone = [t \in Threads |-> 0]
    /\ pre = [t \in Threads |-> <<>>]
    /\ closedAtCall = [t \in Threads |-> FALSE]
    /\ waited = [t \in Threads |-> FALSE]
    /\ steps = [t \in Threads |-> 0]
    /\ running = TRUE
    /\ capFrame = NoFrame
    /\ opened = "unknown"
    /\ key = FALSE
    /\ exitStatus = NoStatus
    /\ runningWrites = <<>>
    /\ keyAtIterStart = FALSE
    /\ data = [b \in BufIds |-> NoFrame]
    /\ capData = NoBuf
    /\ queueData = <<>>
    /\ frameData = [t \in Threads |-> NoBuf]
    /\ fpsAccess = {}
    /\ lateReads = 0
    /\ latePushes = 0

\* if (argc >= 6) queue_size = std::atoi(argv[5]);
MainArgs ==
    /\ pc[Consumer] = "main_args"
    /\ queue_size' = IF argc >= 6 THEN ToSizeT(atoi(argv5)) ELSE queue_size
    /\ pc' = [pc EXCEPT ![Consumer] = "main_construct"]
    /\ UNCHANGED <<queueVars, locVars, frame, retVars, histVars, callVars,
                   stopsDone, matVars, ret, running, capFrame, opened, key,
                   exitStatus, runningWrites, keyAtIterStart, fpsVars,
                   lateVars, argc, argv5>>

\* FrameQueue frameQueue(queue_size);
MainConstruct ==
    /\ pc[Consumer] = "main_construct"
    /\ max_size_' = queue_size
    /\ running_' = TRUE
    /\ pc' = [pc EXCEPT ![Consumer] = "main_spawn"]
    /\ UNCHANGED <<queue_, mutex_, locVars, frame, retVars, histVars, callVars,
                   stopsDone, matVars, ret, pipeVars>>

NextArgs == MainArgs \/ MainConstruct

SpecArgs == InitArgs /\ [][NextArgs]_vars

\* the variables a step of captureThread or main outside the queue leaves alone
queueSide == <<queueVars, locVars, frame, retVars, histVars, callVars,
               stopsDone, matVars>>

\* ---------------------------------------------------------- captureThread
\* mutant: the failed open is not noticed
CapOpenIgnoresFailure ==
    /\ pc[Producer] = "cap_open"
    /\ \E isOpened \in BOOLEAN :
         /\ opened' = IF isOpened THEN "yes" ELSE "no"
         /\ pc' = [pc EXCEPT ![Producer] = "cap_loop"]
    /\ UNCHANGED <<queueSide, ret, running, capFrame, key, exitStatus,
                   runningWrites, keyAtIterStart, fpsVars, lateVars, argVars>>

\* cv::VideoCapture cap(gst_pipeline, cv::CAP_GSTREAMER); if (!cap.isOpened())
CapOpen ==
    /\ pc[Producer] = "cap_open"
    /\ \E isOpened \in BOOLEAN :
         /\ opened' = IF isOpened THEN "yes" ELSE "no"
         /\ pc' = [pc EXCEPT ![Producer] = IF isOpened THEN "cap_loop"
                                           ELSE "cap_fail_flag"]
    /\ UNCHANGED <<queueSide, ret, running, capFrame, key, exitStatus,
                   runningWrites, keyAtIterStart, fpsVars, lateVars, argVars>>

\* running = false;
CapFailFlag ==
    /\ pc[Producer] = "cap_fail_flag"
    /\ running' = FALSE
    /\ runningWrites' = Append(runningWrites, Producer)
    /\ pc' = [pc EXCEPT ![Producer] = "cap_fail_stop"]
    /\ UNCHANGED <<queueSide, ret, capFrame, opened, key, exitStatus,
                   keyAtIterStart, fpsVars, lateVars, argVars>>

\* frameQueue.stop(); return;
CapFailStop ==
    /\ pc[Producer] = "cap_fail_stop"
    /\ stopCalls' = stopCalls + 1
    /\ pc' = [pc EXCEPT ![Producer] = "stop_set"]
    /\ ret' = [ret EXCEPT ![Producer] = "cap_done"]
    /\ UNCHANGED <<queueVars, locVars, frame, retVars, histVars, pushes, pops,
                   stopsDone, pipeVars, matVars>>

\* while (running)
CapLoopTest ==
    /\ pc[Producer] = "cap_loop"
    /\ pc' = [pc EXCEPT ![Producer] = IF running THEN "cap_read"
                                      ELSE "cap_release"]
    /\ UNCHANGED <<queueSide, ret, pipeVars>>

\* if (!cap.read(frame)): the source fails, or yields an empty frame, or
\* yields its next frame (it has MaxFrames of them)
CapRead ==
    /\ pc[Producer] = "cap_read"
    /\ \/ /\ capFrame' = NoFrame
          /\ capData' = NoBuf
          /\ data' = Collect(data, Referenced(NoBuf, queueData, frameData))
          /\ pc' = [pc EXCEPT ![Producer] = "cap_sleep"]
       \/ /\ capFrame' = NoFrame
          /\ capData' = NoBuf
          /\ data' = Collect(data, Referenced(NoBuf, queueData, frameData))
          /\ pc' = [pc EXCEPT ![Producer] = "cap_empty"]
       \/ /\ pushes < MaxFrames
          /\ capFrame' = pushes + 1
          /\ capData' = ReadInto(capData)
          /\ data' = [data EXCEPT ![capData'] = pushes + 1]
          /\ pc' = [pc EXCEPT ![Producer] = "cap_empty"]
    /\ lateReads' = CountLate(lateReads)
    /\ UNCHANGED <<queueVars, locVars, frame, retVars, histVars, callVars,
                   stopsDone, queueData, frameData, ret, running, opened, key,
                   exitStatus, runningWrites, keyAtIterStart, fpsVars,
                   latePushes, argVars>>

\* mutant: a failed read is fatal
CapSleepFatal ==
    /\ pc[Producer] = "cap_sleep"
    /\ running' = FALSE
    /\ runningWrites' = Append(runningWrites, Producer)
    /\ pc' = [pc EXCEPT ![Producer] = "cap_release"]
    /\ UNCHANGED <<queueSide, ret, capFrame, opened, key, exitStatus,
                   keyAtIterStart, fpsVars, lateVars, argVars>>

\* the read failed: sleep_for(10 ms); continue;
CapSleep ==
    /\ pc[Producer] = "cap_sleep"
    /\ pc' = [pc EXCEPT ![Producer] = "cap_loop"]
    /\ UNCHANGED <<queueSide, ret, pipeVars>>

\* mutant: the empty frame is pushed too
CapEmptyTestPushesAll ==
    /\ pc[Producer] = "cap_empty"
    /\ pushArg' = [pushArg EXCEPT ![Producer] = capFrame]
    /\ pushes' = IF capFrame = NoFrame THEN pushes ELSE pushes + 1
    /\ closedAtCall' = [closedAtCall EXCEPT ![Producer] = ~running_]
    /\ latePushes' = CountLate(latePushes)
    /\ pc' = [pc EXCEPT ![Producer] = "push_lock"]
    /\ ret' = [ret EXCEPT ![Producer] = "cap_count"]
    /\ UNCHANGED <<queueVars, popTimeout, wake, pre, waited, steps, frame,
                   retVars, histVars, pops, stopCalls, stopsDone, running,
                   capFrame, opened, key, exitStatus, runningWrites,
                   keyAtIterStart, fpsVars, lateReads, argVars, matVars>>

\* mutant: if (!frame.empty()) continue;
CapEmptyTestInverted ==
    /\ pc[Producer] = "cap_empty"
    /\ IF capFrame # NoFrame
         THEN /\ pc' = [pc EXCEPT ![Producer] = "cap_loop"]
              /\ UNCHANGED <<pushArg, pushes, closedAtCall, ret, latePushes>>
         ELSE /\ pushArg' = [pushArg EXCEPT ![Producer] = capFrame]
              /\ pushes' = pushes + 1
              /\ closedAtCall' = [closedAtCall EXCEPT ![Producer] = ~running_]
              /\ latePushes' = CountLate(latePushes)
              /\ pc' = [pc EXCEPT ![Producer] = "push_lock"]
              /\ ret' = [ret EXCEPT ![Producer] = "cap_count"]
    /\ UNCHANGED <<queueVars, popTimeout, wake, pre, waited, steps, frame,
                   retVars, histVars, pops, stopCalls, stopsDone, running,
                   capFrame, opened, key, exitStatus, runningWrites,
                   keyAtIterStart, fpsVars, lateReads, argVars, matVars>>

\* if (frame.empty()) continue;  frameQueue.push(frame);
CapEmptyTest ==
    /\ pc[Producer] = "cap_empty"
    /\ IF capFrame = NoFrame
         THEN /\ pc' = [pc EXCEPT ![Producer] = "cap_loop"]
              /\ UNCHANGED <<pushArg, pushes, closedAtCall, ret, latePushes>>
         ELSE /\ pushArg' = [pushArg EXCEPT ![Producer] = capFrame]
              /\ pushes' = pushes + 1
              /\ closedAtCall' = [closedAtCall EXCEPT ![Producer] = ~running_]
              /\ latePushes' = CountLate(latePushes)
              /\ pc' = [pc EXCEPT ![Producer] = "push_lock"]
              /\ ret' = [ret EXCEPT ![Producer] = "cap_count"]
    /\ UNCHANGED <<queueVars, popTimeout, wake, pre, waited, steps, frame,
                   retVars, histVars, pops, stopCalls, stopsDone, running,
                   capFrame, opened, key, exitStatus, runningWrites,
                   keyAtIterStart, fpsVars, lateReads, argVars, matVars>>

\* mutant: do { ... } while (running): the next read starts untested
CapCountSkipsTest ==
    /\ pc[Producer] = "cap_count"
    /\ pc' = [pc EXCEPT ![Producer] = "cap_read"]
    /\ UNCHANGED <<queueSide, ret, pipeVars>>

\* mutant: the capture thread also reads display_fps for a log line
CapCountReadsDisplayFps ==
    /\ pc[Producer] = "cap_count"
    /\ \E elapsed \in BOOLEAN :
         fpsAccess' = IF elapsed
                        THEN fpsAccess \cup {<<Producer, "capture_fps", "write">>,
                                             <<Producer, "display_fps", "read">>}
                        ELSE fpsAccess
    /\ pc' = [pc EXCEPT ![Producer] = "cap_loop"]
    /\ UNCHANGED <<queueSide, ret, running, capFrame, opened, key, exitStatus,
                   runningWrites, keyAtIterStart, lateVars, argVars>>

\* frame_count++; if (elapsed >= 1000) { capture_fps = frame_count;
\* frame_count = 0; last_time = current_time; }
CapCount ==
    /\ pc[Producer] = "cap_count"
    /\ \E elapsed \in BOOLEAN :
         fpsAccess' = IF elapsed
                        THEN fpsAccess \cup {<<Producer, "capture_fps", "write">>}
                        ELSE fpsAccess
    /\ pc' = [pc EXCEPT ![Producer] = "cap_loop"]
    /\ UNCHANGED <<queueSide, ret, running, capFrame, opened, key, exitStatus,
                   runningWrites, keyAtIterStart, lateVars, argVars>>

\* mutant: the thread does not return, it goes back to its loop
CapReleaseRestarts ==
    /\ pc[Producer] = "cap_release"
    /\ pc' = [pc EXCEPT ![Producer] = "cap_loop"]
    /\ UNCHANGED <<queueSide, ret, pipeVars>>

\* cap.release(); the thread function returns
CapRelease ==
    /\ pc[Producer] = "cap_release"
    /\ pc' = [pc EXCEPT ![Producer] = "cap_done"]
    /\ UNCHANGED <<queueSide, ret, pipeVars>>

CaptureStep ==
    \/ CapOpen \/ CapFailFlag \/ CapFailStop \/ CapLoopTest \/ CapRead
    \/ CapSleep \/ CapEmptyTest \/ CapCount \/ CapRelease


\* ------------------------------------------------------------------- main
\* std::thread capture_thread(captureThread, ...); sleep_for(500 ms);
MainSpawn ==
    /\ pc[Consumer] = "main_spawn"
    /\ pc[Producer] = "cap_notstarted"
    /\ pc' = [pc EXCEPT ![Consumer] = "main_loop", ![Producer] = "cap_open"]
    /\ UNCHANGED <<queueSide, ret, pipeVars>>

\* while (running && ...): the first operand
MainLoopRunning ==
    /\ pc[Consumer] = "main_loop"
    /\ pc' = [pc EXCEPT ![Consumer] = IF running THEN "main_loop_queue"
                                      ELSE "main_exit"]
    /\ keyAtIterStart' = key
    /\ UNCHANGED <<queueSide, ret, running, capFrame, opened, key, exitStatus,
                   runningWrites, fpsVars, lateVars, argVars>>

\* while (... && frameQueue.is_running()): the second operand
MainLoopQueue ==
    /\ pc[Consumer] = "main_loop_queue"
    /\ pc' = [pc EXCEPT ![Consumer] = IF running_ THEN "main_pop"
                                      ELSE "main_exit"]
    /\ UNCHANGED <<queueSide, ret, pipeVars>>

\* frameQueue.pop(frame, 1000)
MainCallPop ==
    /\ pc[Consumer] = "main_pop"
    /\ popTimeout' = [popTimeout EXCEPT ![Consumer] = 1000]
    /\ closedAtCall' = [closedAtCall EXCEPT ![Consumer] = ~running_]
    /\ waited' = [waited EXCEPT ![Consumer] = FALSE]
    /\ wake' = [wake EXCEPT ![Consumer] = "none"]
    /\ pc' = [pc EXCEPT ![Consumer] = "pop_lock"]
    /\ ret' = [ret EXCEPT ![Consumer] = "main_pop_ret"]
    /\ UNCHANGED <<queueVars, pushArg, pre, steps, frame, retVars, histVars,
                   callVars, stopsDone, pipeVars, matVars>>

\* mutant: a failed pop always ends the loop
MainPopFailedBreaks ==
    /\ pc[Consumer] = "main_pop_ret"
    /\ ~ok[Consumer]
    /\ pc' = [pc EXCEPT ![Consumer] = "main_exit"]
    /\ UNCHANGED <<queueSide, ret, pipeVars>>

\* if (!frameQueue.pop(...)) { if (!running) break; continue; }
MainPopFailed ==
    /\ pc[Consumer] = "main_pop_ret"
    /\ ~ok[Consumer]
    /\ pc' = [pc EXCEPT ![Consumer] = IF ~running THEN "main_exit"
                                      ELSE "main_loop"]
    /\ UNCHANGED <<queueSide, ret, pipeVars>>

\* pop returned true: if (frame.empty()) continue;
MainPopOk ==
    /\ pc[Consumer] = "main_pop_ret"
    /\ ok[Consumer]
    /\ pc' = [pc EXCEPT ![Consumer] = IF frame[Consumer] = NoFrame
                                      THEN "main_loop" ELSE "main_show"]
    /\ UNCHANGED <<queueSide, ret, pipeVars>>

\* cv::imshow(window_name, frame); frame_count++; if (elapsed >= 1000)
\* { display_fps = frame_count; frame_count = 0; last_time = current_time;
\* std::cout << capture_fps.load() << display_fps.load()
\* << frameQueue.size(); }
MainShow ==
    /\ pc[Consumer] = "main_show"
    /\ \E elapsed \in BOOLEAN :
         IF elapsed
           THEN /\ fpsAccess' = fpsAccess \cup
                                   {<<Consumer, "display_fps", "write">>,
                                    <<Consumer, "capture_fps", "read">>,
                                    <<Consumer, "display_fps", "read">>}
                /\ pc' = [pc EXCEPT ![Consumer] = "size_lock"]
                /\ ret' = [ret EXCEPT ![Consumer] = "main_key"]
           ELSE /\ pc' = [pc EXCEPT ![Consumer] = "main_key"]
                /\ UNCHANGED <<fpsAccess, ret>>
    /\ UNCHANGED <<queueSide, running, capFrame, opened, key, exitStatus,
                   runningWrites, keyAtIterStart, lateVars, argVars>>

\* mutant: the exit key breaks the loop without storing into running
MainWaitKeyNoFlag ==
    /\ pc[Consumer] = "main_key"
    /\ IF key
         THEN /\ key' = FALSE
              /\ pc' = [pc EXCEPT ![Consumer] = "main_exit"]
              /\ UNCHANGED <<running, runningWrites>>
         ELSE /\ pc' = [pc EXCEPT ![Consumer] = "main_loop"]
              /\ UNCHANGED <<running, runningWrites, key>>
    /\ UNCHANGED <<queueSide, ret, capFrame, opened, exitStatus,
                   keyAtIterStart, fpsVars, lateVars, argVars>>

\* int key = cv::waitKey(1); if (key == 'q' || key == 'Q' || key == 27)
\* { running = false; break; }
MainWaitKey ==
    /\ pc[Consumer] = "main_key"
    /\ IF key
         THEN /\ running' = FALSE
              /\ runningWrites' = Append(runningWrites, Consumer)
              /\ key' = FALSE
              /\ pc' = [pc EXCEPT ![Consumer] = "main_exit"]
         ELSE /\ pc' = [pc EXCEPT ![Consumer] = "main_loop"]
              /\ UNCHANGED <<running, runningWrites, key>>
    /\ UNCHANGED <<queueSide, ret, capFrame, opened, exitStatus,
                   keyAtIterStart, fpsVars, lateVars, argVars>>

\* cv::destroyAllWindows(); frameQueue.stop();
MainExit ==
    /\ pc[Consumer] = "main_exit"
    /\ stopCalls' = stopCalls + 1
    /\ pc' = [pc EXCEPT ![Consumer] = "stop_set"]
    /\ ret' = [ret EXCEPT ![Consumer] = "main_join"]
    /\ UNCHANGED <<queueVars, locVars, frame, retVars, histVars, pushes, pops,
                   stopsDone, pipeVars, matVars>>

\* mutant: main does not wait for the capture thread
MainJoinNoWait ==
    /\ pc[Consumer] = "main_join"
    /\ exitStatus' = 0
    /\ pc' = [pc EXCEPT ![Consumer] = "main_done"]
    /\ UNCHANGED <<queueSide, ret, running, capFrame, opened, key,
                   runningWrites, keyAtIterStart, fpsVars, lateVars, argVars>>

\* capture_thread.join(); return 0;
MainJoin ==
    /\ pc[Consumer] = "main_join"
    /\ pc[Producer] = "cap_done"
    /\ exitStatus' = 0
    /\ pc' = [pc EXCEPT ![Consumer] = "main_done"]
    /\ UNCHANGED <<queueSide, ret, running, capFrame, opened, key,
                   runningWrites, keyAtIterStart, fpsVars, lateVars, argVars>>

MainStep ==
    \/ MainSpawn \/ MainLoopRunning \/ MainLoopQueue \/ MainCallPop
    \/ MainPopFailed \/ MainPopOk \/ MainShow \/ MainWaitKey \/ MainExit
    \/ MainJoin

\* the user presses q, Q or ESC in the window
PressKey ==
    /\ ~key
    /\ exitStatus = NoStatus
    /\ key' = TRUE
    /\ UNCHANGED <<queueSide, pc, ret, running, capFrame, opened, exitStatus,
                   runningWrites, keyAtIterStart, fpsVars, lateVars, argVars>>

CaptureQueueStep == QueueStep(Producer) /\ UNCHANGED pipeVars
MainQueueStep == QueueStep(Consumer) /\ UNCHANGED pipeVars

NextPipeline ==
    \/ CaptureStep \/ CaptureQueueStep
    \/ MainStep \/ MainQueueStep
    \/ PressKey

Pipeline == InitPipeline /\ [][NextPipeline]_vars

\* both threads are scheduled fairly and every read of the capture source
\* returns; a blocked wait_for ends at the latest when its timeout passes; a
\* thread blocked in mutex_.lock() gets the mutex in the end
FairPipeline ==
    /\ Pipeline
    /\ WF_vars(CaptureStep \/ CaptureQueueStep)
    /\ WF_vars(MainStep \/ MainQueueStep)
    /\ \A t \in Threads : SF_vars(TakesMutex(t))


\* ---------------------------------------------------------------- helpers
PushHolding == {"push_while", "push_drop", "push_if", "push_insert",
                "push_notify", "push_unlock"}
PopHolding == {"pop_pred", "pop_block", "pop_final", "pop_closed", "pop_take",
               "pop_unlock"}

RECURSIVE IsSubseq(_, _)
IsSubseq(a, b) ==
    IF a = <<>> THEN TRUE
    ELSE IF b = <<>> THEN FALSE
    ELSE IF Head(a) = Head(b) THEN IsSubseq(Tail(a), Tail(b))
    ELSE IsSubseq(a, Tail(b))

IsPrefix(a, b) == Len(a) <= Len(b) /\ SubSeq(b, 1, Len(a)) = a

NoDuplicates(a) == \A i, j \in 1..Len(a) : a[i] = a[j] => i = j

\* ------------------------------------------------------------------ claims

\* C1: for every capacity N >= 1 and every interleaving of push, pop, stop
\* and size, the queue never holds more than N = max_size_ frames.
C1_SizeWithinCapacity == QSize(queue_) <= max_size_

\* an overflowing push has completed and the queue is full again
C1_Witness ==
    /\ dropped # <<>>
    /\ QSize(queue_) = max_size_
    /\ pc[Producer] = "idle"

\* C2: the frames returned by successful pops are a subsequence of the frames
\* accepted by push, none of them twice; when no frame was ever dropped by an
\* overflowing push they are exactly a prefix of the accepted frames.
C2_DeliveredInOrder ==
    /\ IsSubseq(delivered, accepted)
    /\ NoDuplicates(delivered)
    /\ dropped = <<>> => IsPrefix(delivered, accepted)

\* two frames were delivered after an older one was dropped
C2_Witness ==
    /\ Len(delivered) >= 2
    /\ dropped # <<>>
    /\ delivered # SubSeq(accepted, 1, Len(delivered))

\* C3: a push of f onto a queue that is open for the whole push and holds
\* exactly max_size_ frames [x1..xN] when push takes the mutex leaves it
\* holding [x2..xN, f].
C3_DropOldest ==
    \A t \in Threads :
        (pc[t] = "push_unlock" /\ running_ /\ QSize(pre[t]) = max_size_)
            => queue_ = Tail(pre[t]) \o <<pushArg[t]>>

\* capacity 2, pushes 1, 2, 3: the third push leaves [2, 3]
C3_Witness ==
    /\ pc[Producer] = "push_unlock"
    /\ running_
    /\ max_size_ = 2
    /\ pre[Producer] = <<1, 2>>
    /\ queue_ = <<2, 3>>

\* C4: a push that starts when the queue is already closed changes nothing:
\* it neither drops nor inserts a frame, also when the queue is full.
C4_PushAfterStopNoOp ==
    \A t \in Threads :
        (pc[t] \in PushHolding /\ closedAtCall[t])
            => /\ queue_ = pre[t]
               /\ pc[t] \notin {"push_drop", "push_insert", "push_notify"}

\* a push that started on a closed, full queue is about to return
C4_Witness ==
    /\ pc[Producer] = "push_unlock"
    /\ closedAtCall[Producer]
    /\ QSize(queue_) = max_size_

\* C5: once running_ is false the number of buffered frames never increases,
\* also for a push that is in progress when stop() runs.
C5_ClosedSizeNeverIncreases ==
    [][~running_ => QSize(queue_') <= QSize(queue_)]_vars

\* C6: when pop returns, ok is true exactly when the queue was non-empty at
\* the moment pop last took the mutex (the end of its wait); then the front
\* frame is returned and removed; ok is false only on an empty queue.
C6_PopOkIffNonEmpty ==
    \A t \in Threads :
        pc[t] = "pop_unlock" =>
            /\ ok[t] = ~QEmpty(pre[t])
            /\ ok[t] => frame[t] = Head(pre[t]) /\ queue_ = Tail(pre[t])
            /\ ~ok[t] => QEmpty(queue_)

\* a pop whose wait ended by timeout found a frame and returns it
C6_Witness ==
    /\ pc[Consumer] = "pop_unlock"
    /\ waited[Consumer]
    /\ wake[Consumer] = "timeout"
    /\ ok[Consumer]
    /\ frame[Consumer] = Head(pre[Consumer])

PopStates == PopHolding \cup {"pop_lock", "pop_waiting", "pop_reacquire"}

\* C7: a pop that starts on a closed queue never waits: while frames are
\* buffered it returns the front one with ok = true, and on the empty queue
\* it returns ok = false at once.
C7_PopAfterStopNoWait ==
    \A t \in Threads :
        (pc[t] \in PopStates /\ closedAtCall[t]) =>
            /\ ~waited[t]
            /\ pc[t] \notin {"pop_block", "pop_waiting", "pop_reacquire",
                             "pop_final"}
            /\ pc[t] = "pop_unlock" =>
                 /\ ok[t] = ~QEmpty(pre[t])
                 /\ ok[t] => frame[t] = Head(pre[t])

\* after a completed stop, a pop drains a frame and more are still buffered
C7_Witness ==
    /\ pc[Consumer] = "pop_unlock"
    /\ closedAtCall[Consumer]
    /\ \E u \in Threads : stopsDone[u] > 0
    /\ ok[Consumer]
    /\ ~QEmpty(queue_)

\* C8: stop() wakes every waiter: once a stop() has completed no thread is
\* left blocked on cond_, so a pop in progress never waits out its timeout.
C8_StopWakesEveryWaiter ==
    (\E u \in Threads : stopsDone[u] > 0) => Waiters = {}

\* C9: stop() is idempotent: every step of stop() leaves the buffered frames
\* and the capacity unchanged and the queue closed; on a closed queue it
\* changes nothing.
C9_StopIdempotent ==
    [][\A t \in Threads :
         (pc[t] \in {"stop_set", "stop_notify"} /\ pc'[t] # pc[t]) =>
             /\ queue_' = queue_
             /\ max_size_' = max_size_
             /\ (pc[t] = "stop_set" => running_' = FALSE)
             /\ (~running_ => running_' = running_)]_vars

\* both threads have completed a stop() and the frames are still buffered
C9_Witness ==
    /\ stopsDone[Producer] >= 1
    /\ stopsDone[Consumer] >= 1
    /\ ~running_
    /\ ~QEmpty(queue_)

\* C10: push never blocks once it holds the mutex: its next step is always
\* enabled, whatever the consumer does, and it returns within 7 steps (at most
\* one frame is dropped).
C10_PushNeverBlocks ==
    \A t \in Threads :
        pc[t] \in PushHolding =>
            /\ ENABLED PushStep(t)
            /\ steps[t] <= 6

\* a push onto a full queue has dropped, inserted and notified
C10_Witness ==
    /\ pc[Producer] = "push_unlock"
    /\ steps[Producer] = 6
    /\ QSize(pre[Producer]) = max_size_

\* C11: the frames delivered never outnumber the frames accepted; every
\* accepted frame is exactly one of delivered, dropped by overflow or still
\* buffered, so no frame is invented or delivered twice.
C11_FrameConservation ==
    /\ Len(delivered) <= Len(accepted)
    /\ Len(accepted) = Len(delivered) + Len(dropped) + QSize(queue_)
    /\ Range(accepted) = Range(delivered) \cup Range(dropped) \cup Range(queue_)
    /\ NoDuplicates(accepted)

\* frames have been delivered and dropped and one is still buffered
C11_Witness ==
    /\ delivered # <<>>
    /\ dropped # <<>>
    /\ ~QEmpty(queue_)

\* a thread is blocked on cond_ while a frame is buffered only in the moment
\* between push's insert and its notify_one
NoLostWakeUp ==
    (Waiters # {} /\ ~QEmpty(queue_)) => pc[Producer] = "push_notify"

\* C12: with a producer pushing into the open queue and a consumer that pops
\* again and again with a finite timeout, under fair scheduling some pop
\* returns ok = true, and no wake-up of a push is lost.
C12_NoStarvation ==
    /\ []NoLostWakeUp
    /\ <>(ok[Consumer] /\ delivered # <<>>)

\* the consumer was woken by a push's notify_one and returns the frame
C12_Witness ==
    /\ pc[Consumer] = "pop_unlock"
    /\ waited[Consumer]
    /\ wake[Consumer] = "notify"
    /\ ok[Consumer]

Stopped == pc[Consumer] = "main_done" /\ pc[Producer] = "cap_done"

\* C13: the shutdown flag starts true, never goes back from false to true, and
\* false is stored into it at most once in a run (by the capture thread's
\* open failure or by the display loop's exit key, never by both).
C13_RunningMonotonic ==
    [][(~running => ~running') /\ Len(runningWrites') <= 1]_vars

\* the exit key has stopped a pipeline whose camera had opened
C13_Witness ==
    /\ runningWrites = <<Consumer>>
    /\ ~running
    /\ opened = "yes"
    /\ Stopped

\* when the open failed the capture thread is on its failure path, has read
\* and pushed nothing, has stored false into running before it calls stop(),
\* and has closed the queue before it returns; main returns after it
OpenFailurePath ==
    opened = "no" =>
        /\ pc[Producer] \in {"cap_fail_flag", "cap_fail_stop", "stop_set",
                             "stop_notify", "cap_done"}
        /\ pushes = 0 /\ accepted = <<>> /\ capFrame = NoFrame
        /\ pc[Producer] # "cap_fail_flag" => ~running
        /\ pc[Producer] \in {"stop_notify", "cap_done"} => ~running_
        /\ pc[Consumer] = "main_done" => pc[Producer] = "cap_done"

\* C14: when the capture source fails to open, the capture thread stores false
\* into running, then closes the queue, then returns, without reading or
\* pushing; afterwards the display loop exits and both threads have ended when
\* main returns.
C14_OpenFailureStops ==
    /\ []OpenFailurePath
    /\ (opened = "no") ~> Stopped

\* the open failed and main has returned
C14_Witness ==
    /\ opened = "no"
    /\ Stopped
    /\ runningWrites = <<Producer>>

\* C15: main's return value tells a failed open from a normal exit.
C15_FailureReported ==
    pc[Consumer] = "main_done" => (opened = "no" <=> exitStatus # 0)

\* C16: a failed read or an empty frame pushes nothing, leaves running and
\* the queue's closed flag unchanged and takes the capture loop to its next
\* test; the capture loop ends only when running is false.
C16_ReadFailureAbsorbed ==
    [][/\ ( /\ \/ pc[Producer] \in {"cap_read", "cap_sleep"}
               \/ pc[Producer] = "cap_empty" /\ capFrame = NoFrame
            /\ pc'[Producer] # pc[Producer] )
          => /\ UNCHANGED <<running, running_, queue_, accepted, pushes>>
             /\ pc[Producer] # "cap_read" => pc'[Producer] = "cap_loop"
       /\ (pc[Producer] = "cap_loop" /\ pc'[Producer] = "cap_release")
          => ~running]_vars

\* after frames were pushed, a failed or empty read took the loop back to
\* its test with the pipeline still running
C16_Witness ==
    /\ pc[Producer] = "cap_loop"
    /\ capFrame = NoFrame
    /\ pushes > 0
    /\ running /\ running_

\* C17: after a pop that returned false the display loop breaks exactly when
\* running is false; otherwise it goes to its next loop test, and in neither
\* case does it write the flag or close the queue.
C17_FailedPopExitsIffStopped ==
    [][(pc[Consumer] = "main_pop_ret" /\ ~ok[Consumer]
        /\ pc'[Consumer] # pc[Consumer])
          => /\ (pc'[Consumer] = "main_exit") <=> ~running
             /\ running => pc'[Consumer] = "main_loop"
             /\ UNCHANGED <<running, running_, queue_>>]_vars

\* a pop has timed out on the open, running pipeline
C17_Witness ==
    /\ pc[Consumer] = "main_pop_ret"
    /\ ~ok[Consumer]
    /\ running /\ running_

\* C18: no iteration of the display loop that started with a key press
\* pending comes back to the loop test: the key is seen in that iteration.
C18_KeyObservedEachIteration ==
    [][(pc'[Consumer] = "main_loop"
        /\ pc[Consumer] \notin {"main_loop", "main_spawn"})
          => ~keyAtIterStart]_vars

\* C19: when main returns, running is false, the queue is closed by main's
\* stop(), the capture thread has returned, and nothing is pushed afterwards;
\* the capture thread does not run before main has built the queue.
C19_ReturnAfterJoin ==
    /\ [](pc[Consumer] = "main_done" =>
            /\ ~running /\ ~running_
            /\ stopsDone[Consumer] = 1
            /\ pc[Producer] = "cap_done"
            /\ mutex_ = Free)
    /\ [](pc[Consumer] = "main_spawn" <=> pc[Producer] = "cap_notstarted")
    /\ [][pc[Consumer] = "main_done" => UNCHANGED <<queue_, accepted>>]_vars

\* main has returned after frames were captured and the exit key was pressed
C19_Witness ==
    /\ pc[Consumer] = "main_done"
    /\ exitStatus = 0
    /\ accepted # <<>>
    /\ runningWrites = <<Consumer>>

\* C20: once running is false, under fair scheduling the capture thread
\* returns, the display loop exits and main's join completes.
C20_ShutdownCompletes == ~running ~> Stopped

\* running is false while main is still blocked in pop's wait_for
C20_Witness ==
    /\ ~running
    /\ pc[Consumer] = "pop_waiting"
    /\ pc[Producer] # "cap_done"

\* the positions of a thread whose next step reads or writes queue_ or running_
AccessPoints ==
    {"push_while", "push_drop", "push_if", "push_insert", "pop_pred",
     "pop_final", "pop_closed", "pop_take", "size_return", "stop_set",
     "main_loop_queue"}

\* C21: every read and write of the queue's frames and of its closed flag is
\* made by a thread that holds mutex_.
C21_AccessUnderMutex ==
    \A t \in Threads : pc[t] \in AccessPoints => mutex_ = t

\* C23: a push that is about to return has either inserted its frame (after
\* removing the oldest one when the queue was full) or left the queue as it
\* found it; it has never removed a frame without inserting its own.
C23_PushAtomic ==
    \A t \in Threads :
        pc[t] = "push_unlock" =>
            \/ queue_ = pre[t]
            \/ queue_ = (IF QSize(pre[t]) >= max_size_ THEN Tail(pre[t])
                         ELSE pre[t]) \o <<pushArg[t]>>

\* C25: a pop with a timeout of zero or less never blocks on cond_: its wait
\* times out at once, and it returns ok = true with the front frame when the
\* queue is non-empty and ok = false when it is empty.
C25_PopPolls ==
    \A t \in Threads :
        (pc[t] \in PopStates /\ popTimeout[t] <= 0) =>
            /\ ~waited[t]
            /\ pc[t] # "pop_waiting"
            /\ wake[t] \in {"none", "timeout"}
            /\ pc[t] = "pop_unlock" =>
                 /\ ok[t] = ~QEmpty(pre[t])
                 /\ ok[t] => frame[t] = Head(pre[t]) /\ queue_ = Tail(pre[t])

\* a pop with a negative timeout found the open queue empty and returns false
C25_Witness ==
    /\ pc[Consumer] = "pop_unlock"
    /\ popTimeout[Consumer] < 0
    /\ wake[Consumer] = "timeout"
    /\ running_
    /\ ~ok[Consumer]

\* C29: a pop that returns ok = false has changed nothing: no step of pop
\* writes running_ or max_size_, only the step that takes the front frame
\* writes queue_ and the caller's frame, and a pop that is about to return
\* false holds the queue as it found it and the caller's frame as the last
\* successful pop left it.
C29_FailedPopNoEffect ==
    /\ [][\A t \in Threads :
            (pc[t] \in PopStates /\ pc'[t] # pc[t]) =>
                /\ running_' = running_ /\ max_size_' = max_size_
                /\ ~(pc[t] = "pop_take" /\ ok'[t]) =>
                     frame'[t] = frame[t] /\ queue_' = queue_]_vars
    /\ [](\A t \in Threads :
            (pc[t] = "pop_unlock" /\ ~ok[t]) => queue_ = pre[t])
    /\ [](frame[Consumer] = IF delivered = <<>> THEN NoFrame
                            ELSE delivered[Len(delivered)])

\* after a successful pop, the next pop has timed out and returns false with
\* the frame of the first still in the caller's hands
C29_Witness ==
    /\ pc[Consumer] = "pop_unlock"
    /\ ~ok[Consumer]
    /\ waited[Consumer]
    /\ running_
    /\ frame[Consumer] # NoFrame

\* main has left the display loop
DisplayLoopExited ==
    \/ pc[Consumer] \in {"main_exit", "main_join", "main_done"}
    \/ pc[Consumer] \in {"stop_set", "stop_notify"}

\* C28: whenever the display loop has exited, running is false; the capture
\* thread's next loop test then ends its loop.
C28_LoopExitImpliesStopped ==
    /\ [](DisplayLoopExited => ~running)
    /\ [][(DisplayLoopExited /\ pc[Producer] = "cap_loop"
           /\ pc'[Producer] # pc[Producer])
             => pc'[Producer] = "cap_release"]_vars

\* the exit key has ended the display loop while the capture thread is still
\* inside its loop
C28_Witness ==
    /\ pc[Consumer] = "main_exit"
    /\ runningWrites = <<Consumer>>
    /\ ~running
    /\ pc[Producer] = "cap_read"

\* C30: no empty frame is ever accepted or buffered; every successful pop of
\* the display loop yields a non-empty frame, which goes to imshow: the
\* loop's empty-frame skip is never taken.
C30_NoEmptyFrameBuffered ==
    /\ [](NoFrame \notin Range(queue_) \cup Range(accepted))
    /\ []((pc[Consumer] = "main_pop_ret" /\ ok[Consumer])
             => frame[Consumer] # NoFrame)
    /\ [][(pc[Consumer] = "main_pop_ret" /\ ok[Consumer]
           /\ pc'[Consumer] # pc[Consumer])
             => pc'[Consumer] = "main_show"]_vars

\* the capture loop has skipped an empty or failed read while a popped frame
\* is being displayed
C30_Witness ==
    /\ pc[Consumer] = "main_show"
    /\ frame[Consumer] # NoFrame
    /\ capFrame = NoFrame
    /\ pc[Producer] = "cap_loop"
    /\ accepted # <<>>

\* C26: the capture loop ends only by its test of running, and the thread
\* returns only from there or from its failed open; once running is false the
\* capture thread begins at most one more read and makes at most one more
\* push call before it releases the source.
C26_CaptureStopsCooperatively ==
    /\ [](lateReads <= 1 /\ latePushes <= 1)
    /\ [](pc[Producer] \in {"cap_release", "cap_done"} => ~running)
    /\ [][(pc'[Producer] = "cap_done" /\ pc[Producer] # "cap_done")
            => (pc[Producer] = "cap_release" \/ opened = "no")]_vars
    /\ [][(pc'[Producer] = "cap_release" /\ pc[Producer] # "cap_release")
            => pc[Producer] = "cap_loop"]_vars

\* the exit key came just after the loop test: the capture thread has made
\* one more read and one more push and then returned
C26_Witness ==
    /\ lateReads = 1
    /\ latePushes = 1
    /\ pc[Producer] = "cap_done"
    /\ opened = "yes"

C24_QueueOwnsCopies ==
    /\ Len(queueData) = Len(queue_)
    /\ \A i \in 1..Len(queue_) :
          queueData[i] # NoBuf /\ data[queueData[i]] = queue_[i]
    /\ frameData[Consumer] # NoBuf =>
          data[frameData[Consumer]] = frame[Consumer]
    /\ capData # NoBuf =>
          capData \notin Range(queueData) \cup {frameData[Consumer]}

\* the capture thread has read its third frame into its buffer while the
\* second is buffered and the first is in main's hands
C24_Witness ==
    /\ pc[Producer] = "cap_empty"
    /\ capData # NoBuf /\ data[capData] = 3
    /\ queue_ = <<2>> /\ data[queueData[1]] = 2
    /\ frame[Consumer] = 1 /\ data[frameData[Consumer]] = 1

\* C22: whatever the queue_size argument is, the queue main builds has a
\* capacity of at least 1.
C22_CapacityAtLeastOne ==
    pc[Consumer] = "main_spawn" => max_size_ >= 1

====
